---- MODULE Spec2Model ----
(***************************************************************************)
(* A model of the contacts service of src/server.js: five Express route    *)
(* handlers over one JSON file.  Every handler is an async function whose  *)
(* suspension points are the file read inside readContacts and the file    *)
(* write inside writeContacts.  The code a handler runs before the read    *)
(* touches nothing shared, so it is taken together with the read: a        *)
(* request is a slot that is idle, or suspended in writeContacts ("save"), *)
(* and slots interleave between their read and their write.  JavaScript    *)
(* strings are sequences of one-character strings, the file holds JSON     *)
(* text as a sequence of tokens, and Date.now() returns a value that is    *)
(* not less than the one it returned before.  fs.writeFile truncates the   *)
(* file when it opens it and writes it afterwards: a read may fall between *)
(* the two, and of two writes in flight one may land on top of the other.  *)
(***************************************************************************)
EXTENDS Integers, Sequences, FiniteSets, TLC

VARIABLES
    file,     \* the durable artifact data/contacts.json: [exists, text]
    now,      \* the latest value Date.now() has returned
    pc,       \* per request slot: "idle", or "save" (suspended in writeContacts)
    req,      \* per slot: the request being handled [op, id, body]
    buf,      \* per slot: the handler's locals across the await of writeContacts
    last,     \* the most recent exchange: the request, how its read went, the response sent
    alone,    \* per slot (history): no other request was handled while this one was in flight
    started,  \* number of requests received so far
    sent      \* number of responses sent so far (res.json calls)

vars == <<file, now, pc, req, buf, last, alone, started, sent>>

(***************************************************************************)
(* Bounds of the model.                                                    *)
(***************************************************************************)
MaxClock == 2      \* Date.now() returns the values 1..MaxClock
MaxRequests == 2   \* requests received in one behaviour

Slots == {1, 2}   \* requests that can be in flight together

(***************************************************************************)
(* JavaScript strings.                                                     *)
(***************************************************************************)
WhiteSpace == {" ", "\t"}

RECURSIVE TrimStart(_)
TrimStart(s) ==
    IF s = <<>> THEN <<>>
    ELSE IF Head(s) \in WhiteSpace THEN TrimStart(Tail(s))
    ELSE s

RECURSIVE TrimEnd(_)
TrimEnd(s) ==
    IF s = <<>> THEN <<>>
    ELSE IF s[Len(s)] \in WhiteSpace THEN TrimEnd(SubSeq(s, 1, Len(s) - 1))
    ELSE s

\* String.prototype.trim
Trim(s) == TrimEnd(TrimStart(s))

Digit(d) == <<"0", "1", "2", "3", "4", "5", "6", "7", "8", "9">>[d + 1]

\* Number.prototype.toString of a non-negative integer: its decimal digits
RECURSIVE NumberToString(_)
NumberToString(n) ==
    IF n < 10 THEN <<Digit(n)>>
    ELSE NumberToString(n \div 10) \o <<Digit(n % 10)>>

(***************************************************************************)
(* JSON text: a sequence of tokens [k, s].  The whitespace that            *)
(* JSON.stringify(_, null, 2) inserts is skipped by JSON.parse and is not  *)
(* represented.                                                            *)
(***************************************************************************)
Tok(k) == [k |-> k, s |-> <<>>]
LBracket == Tok("[")
RBracket == Tok("]")
LBrace == Tok("{")
RBrace == Tok("}")
Comma == Tok(",")
NullTok == Tok("null")
Key(name) == [k |-> "key", s |-> <<name>>]      \* "name":
Str(s) == [k |-> "str", s |-> s]                \* a string literal

\* the values a parse can yield
JNull == [t |-> "null", items |-> <<>>]
JObject == [t |-> "object", items |-> <<>>]     \* the object {}
JArray(items) == [t |-> "array", items |-> items]

Contact(id, name, phone) == [id |-> id, name |-> name, phone |-> phone]

ContactText(c) ==
    <<LBrace, Key("id"), Str(c.id), Comma, Key("name"), Str(c.name), Comma,
      Key("phone"), Str(c.phone), RBrace>>

RECURSIVE ElementsText(_)
ElementsText(cs) ==
    IF cs = <<>> THEN <<>>
    ELSE IF Len(cs) = 1 THEN ContactText(cs[1])
    ELSE ContactText(cs[1]) \o <<Comma>> \o ElementsText(Tail(cs))

\* the contacts serialised one after the other instead of the array
JSONstringify_Unwrapped(cs) == ElementsText(cs)

\* JSON.stringify of an array of contacts
JSONstringify(cs) == <<LBracket>> \o ElementsText(cs) \o <<RBracket>>

IsContactText(t) ==
    /\ Len(t) = 10
    /\ t[1] = LBrace /\ t[2] = Key("id") /\ t[3].k = "str" /\ t[4] = Comma
    /\ t[5] = Key("name") /\ t[6].k = "str" /\ t[7] = Comma
    /\ t[8] = Key("phone") /\ t[9].k = "str" /\ t[10] = RBrace

ParseFail == [ok |-> FALSE, v |-> JNull]
ParseOk(v) == [ok |-> TRUE, v |-> v]

\* the elements of an array and its closing bracket; acc holds the elements read so far
RECURSIVE ParseElements(_, _)
ParseElements(t, acc) ==
    IF Len(t) < 11 \/ ~IsContactText(SubSeq(t, 1, 10)) THEN ParseFail
    ELSE LET c == Contact(t[3].s, t[6].s, t[9].s)
             rest == SubSeq(t, 11, Len(t))
         IN  IF rest = <<RBracket>> THEN ParseOk(JArray(Append(acc, c)))
             ELSE IF Len(rest) >= 2 /\ rest[1] = Comma
                  THEN ParseElements(Tail(rest), Append(acc, c))
                  ELSE ParseFail

\* JSON.parse on the texts of this model: null, {}, an array of contact
\* objects; anything else (the empty text, a text cut short) is a SyntaxError
JSONparse(t) ==
    IF t = <<NullTok>> THEN ParseOk(JNull)
    ELSE IF t = <<LBrace, RBrace>> THEN ParseOk(JObject)
    ELSE IF t = <<LBracket, RBracket>> THEN ParseOk(JArray(<<>>))
    ELSE IF Len(t) >= 2 /\ t[1] = LBracket THEN ParseElements(Tail(t), <<>>)
    ELSE ParseFail

(***************************************************************************)
(* The durable artifact.                                                   *)
(***************************************************************************)
Missing == [exists |-> FALSE, text |-> <<>>]
FileOf(text) == [exists |-> TRUE, text |-> text]

ReadOutcomes == {"ok", "mkdirFails", "readFails"}
\* while another handler is inside fs.writeFile, which has truncated the file
\* and not yet written it, readFile may also return the empty text
ReadOutcomesDuringWrite == ReadOutcomes \cup {"okCutShort"}
ReadWent(io) == IF io \in {"ok", "okCutShort"} THEN "ok" ELSE "failed"

WriteOutcomes == {"ok", "fails", "failsCutShort"}
\* when another handler's fs.writeFile wrote the file after this one's had
\* opened it, this one's text may land on top of the other's
WriteOutcomesAfterWrite == WriteOutcomes \cup {"okOverOther"}

\* readContacts: the value it returns for the artifact f when its I/O ends as io.
\* A rejected mkdir lands in the catch of line 27; a rejected readFile (a missing
\* file included) is replaced by the text '[]' on line 24
readContacts(f, io) ==
    IF io = "mkdirFails" THEN JArray(<<>>)
    ELSE LET data == IF io = "readFails" \/ ~f.exists THEN <<LBracket, RBracket>>
                     ELSE IF io = "okCutShort" THEN <<>>
                     ELSE f.text
             parsed == JSONparse(data)
         IN  IF ~parsed.ok THEN JArray(<<>>)
             ELSE IF parsed.v.t = "null" THEN JArray(<<>>)
             ELSE parsed.v

\* writeContacts: the artifact after the call, and the boolean it returns.
\* fs.writeFile opens the file with flag 'w', which truncates it, and then
\* writes: a failure before the open leaves the artifact as it was ("fails"),
\* a failure after it leaves a strict prefix of the text, which JSON.parse
\* rejects whatever its length; the empty prefix stands for them ("failsCutShort").
\* Two calls in flight hold a file descriptor each and write from offset 0:
\* the later write replaces the head of the earlier text and keeps the rest of
\* it ("okOverOther")
writeContacts(f, contacts, io) ==
    LET text == JSONstringify(contacts)
    IN  IF io = "ok" THEN [file |-> FileOf(text), success |-> TRUE]
        ELSE IF io = "okOverOther"
        THEN [file |-> FileOf(text \o SubSeq(f.text, Len(text) + 1, Len(f.text))),
              success |-> TRUE]
        ELSE IF io = "fails" THEN [file |-> f, success |-> FALSE]
        ELSE [file |-> FileOf(<<>>), success |-> FALSE]

(***************************************************************************)
(* Requests and responses.                                                 *)
(***************************************************************************)
\* a JSON body: a field that is absent reads as undefined
Body(hasName, name, hasPhone, phone) ==
    [hasName |-> hasName, name |-> name, hasPhone |-> hasPhone, phone |-> phone]
NoBody == Body(FALSE, <<>>, FALSE, <<>>)

BodyInputs ==
    { Body(TRUE, <<"a">>, TRUE, <<"1">>),
      Body(TRUE, <<" ", "b", "\t">>, TRUE, <<"\t", "2">>),
      Body(TRUE, <<>>, TRUE, <<"1">>),
      Body(TRUE, <<" ", "\t">>, TRUE, <<"1">>),
      Body(TRUE, <<"a">>, TRUE, <<>>),
      Body(TRUE, <<"a">>, TRUE, <<" ">>),
      Body(FALSE, <<>>, TRUE, <<"1">>),
      Body(TRUE, <<"a">>, FALSE, <<>>) }

\* the :id path parameters tried; Express never matches an empty one
IdInputs == { NumberToString(t) : t \in 1..MaxClock }

Request(op, id, body) == [op |-> op, id |-> id, body |-> body]
NoReq == Request("none", <<>>, NoBody)

NoData == [t |-> "none", items |-> <<>>]
ContactData(c) == [t |-> "contact", items |-> <<c>>]

Response(status, success, message, data) ==
    [status |-> status, success |-> success, message |-> message, data |-> data]
NoResp == Response(0, FALSE, "", NoData)

\* res.json(...) of the success branches and res.status(n).json(...) of the others;
\* the messages are English glosses of the literals in the source
\* a success branch whose res.json(...) leaves data out
Ok_WithoutData(status, message, data) == Response(status, TRUE, message, NoData)

Ok(status, message, data) == Response(status, TRUE, message, data)
Fail(status, message) == Response(status, FALSE, message, NoData)

\* read: "none" when the handler answered before reading, else "ok" or "failed";
\* raced: another handler's writeContacts wrote the file during this one's
Exchange(r, read, resp) == [req |-> r, read |-> read, resp |-> resp, raced |-> FALSE]
NoExchange == Exchange(NoReq, "none", NoResp)

\* loaded: the array readContacts returned; contacts: the array handed to
\* writeContacts; raced: another handler's writeContacts has written the file
\* since this one called its own
NoBuf == [loaded |-> <<>>, contacts |-> <<>>, index |-> 0, contact |-> <<>>, read |-> "none",
          raced |-> FALSE]

Others(p) == Slots \ {p}

(***************************************************************************)
(* The pure parts of the handlers.                                         *)
(***************************************************************************)
\* !name || !phone: the check with the calls of trim left out
ValidateBody_NoTrim(body) ==
    IF ~body.hasName THEN "throw"
    ELSE IF body.name = <<>> THEN "invalid"
    ELSE IF ~body.hasPhone THEN "throw"
    ELSE IF body.phone = <<>> THEN "invalid"
    ELSE "ok"

\* !name.trim() || !phone.trim(): "throw" is the TypeError of undefined.trim()
ValidateBody(body) ==
    IF ~body.hasName THEN "throw"
    ELSE IF Trim(body.name) = <<>> THEN "invalid"
    ELSE IF ~body.hasPhone THEN "throw"
    ELSE IF Trim(body.phone) = <<>> THEN "invalid"
    ELSE "ok"

\* !id || !name.trim() || !phone.trim()
ValidatePut(id, body) == IF id = <<>> THEN "invalid" ELSE ValidateBody(body)

\* contacts.findIndex(c => c.id === id), 1-based; 0 stands for -1
RECURSIVE FindIndexFrom(_, _, _)
FindIndexFrom(cs, id, i) ==
    IF i > Len(cs) THEN 0
    ELSE IF cs[i].id = id THEN i
    ELSE FindIndexFrom(cs, id, i + 1)

FindIndex(cs, id) == FindIndexFrom(cs, id, 1)

\* contacts.filter(c => c.id !== id)
RECURSIVE FilterOut(_, _)
FilterOut(cs, id) ==
    IF cs = <<>> THEN <<>>
    ELSE IF Head(cs).id # id THEN <<Head(cs)>> \o FilterOut(Tail(cs), id)
    ELSE FilterOut(Tail(cs), id)

\* Date.now(): the values it can return when it returned t before
ClockReadings(t) == t..MaxClock

\* the new contact of POST with the calls of trim left out
NewContact_Untrimmed(clock, body) == Contact(NumberToString(clock), body.name, body.phone)

\* the new contact of POST
NewContact(clock, body) == Contact(NumberToString(clock), Trim(body.name), Trim(body.phone))

\* the replacement contact of PUT with the calls of trim left out
UpdatedContact_Untrimmed(id, body) == Contact(id, body.name, body.phone)

\* the replacement contact of PUT
UpdatedContact(id, body) == Contact(id, Trim(body.name), Trim(body.phone))

(***************************************************************************)
(* Initial state.                                                          *)
(***************************************************************************)
\* what the service may find on disk when it starts: nothing, an empty
\* array, a text cut short, well-formed JSON that is not an array, and the
\* collection an earlier run has left, here of one contact
InitialArtifacts ==
    { Missing, FileOf(<<LBracket, RBracket>>), FileOf(<<LBracket, LBrace>>),
      FileOf(<<NullTok>>), FileOf(<<LBrace, RBrace>>),
      FileOf(JSONstringify(<<Contact(<<"1">>, <<"a">>, <<"1">>)>>)) }

Init ==
    /\ file \in InitialArtifacts
    /\ now = 1
    /\ pc = [p \in Slots |-> "idle"]
    /\ req = [p \in Slots |-> NoReq]
    /\ buf = [p \in Slots |-> NoBuf]
    /\ last = NoExchange
    /\ alone = [p \in Slots |-> TRUE]
    /\ started = 0
    /\ sent = 0

(***************************************************************************)
(* Steps shared by the handlers.                                           *)
(***************************************************************************)
\* a request arrives and takes p, the first idle slot
Arrive(p) ==
    /\ pc[p] = "idle"
    /\ \A q \in Slots : q < p => pc[q] # "idle"
    /\ started < MaxRequests
    /\ started' = started + 1

\* the slots in flight when p's request is handled are no longer alone
Overlapped(p) ==
    [q \in Slots |-> IF q # p /\ pc[q] # "idle" THEN FALSE ELSE alone[q]]

\* the outcomes of the I/O of readContacts and of writeContacts in slot p
ReadsOf(p) ==
    IF \E q \in Others(p) : pc[q] = "save" THEN ReadOutcomesDuringWrite ELSE ReadOutcomes
WritesOf(p) == IF buf[p].raced THEN WriteOutcomesAfterWrite ELSE WriteOutcomes

\* the handler of slot p answers request r without suspending in writeContacts
Answer(p, r, read, resp) ==
    /\ last' = Exchange(r, read, resp)
    /\ sent' = sent + 1
    /\ alone' = Overlapped(p)
    /\ UNCHANGED <<pc, req, buf>>

\* the handler of slot p calls writeContacts with locals b and suspends
Suspend(p, r, b) ==
    /\ pc' = [pc EXCEPT ![p] = "save"]
    /\ req' = [req EXCEPT ![p] = r]
    /\ buf' = [buf EXCEPT ![p] = b]
    /\ alone' = [Overlapped(p) EXCEPT ![p] = \A o \in Others(p) : pc[o] = "idle"]
    /\ UNCHANGED <<last, sent>>

\* the handler that goes on after its response, to send another one
Reply_KeepsRunning(p, resp) ==
    /\ last' = Exchange(req[p], buf[p].read, resp)
    /\ sent' = sent + 1
    /\ UNCHANGED <<pc, req, buf, alone>>

\* writeContacts has returned: the handler of slot p sends resp and ends
Reply(p, resp) ==
    /\ last' = [Exchange(req[p], buf[p].read, resp) EXCEPT !.raced = buf[p].raced]
    /\ sent' = sent + 1
    /\ pc' = [pc EXCEPT ![p] = "idle"]
    /\ req' = [req EXCEPT ![p] = NoReq]
    /\ buf' = [q \in Slots |->
                  IF q = p THEN NoBuf
                  ELSE IF pc[q] = "save" /\ resp.success THEN [buf[q] EXCEPT !.raced = TRUE]
                  ELSE buf[q]]
    /\ alone' = [alone EXCEPT ![p] = TRUE]

(***************************************************************************)
(* GET /api/contacts                                                       *)
(***************************************************************************)
\* the handler with a readContacts that creates the file it does not find
List_CreatingFile(p) ==
    /\ Arrive(p)
    /\ \E io \in ReadsOf(p) :
          /\ Answer(p, Request("list", <<>>, NoBody), ReadWent(io),
                    Ok(200, "fetched", readContacts(file, io)))
          /\ file' = IF io = "ok" /\ ~file.exists THEN FileOf(<<LBracket, RBracket>>) ELSE file
    /\ UNCHANGED now

List(p) ==
    /\ Arrive(p)
    /\ \E io \in ReadsOf(p) :
          Answer(p, Request("list", <<>>, NoBody), ReadWent(io),
                 Ok(200, "fetched", readContacts(file, io)))
    /\ UNCHANGED <<file, now>>

(***************************************************************************)
(* GET /api/contacts/:id                                                   *)
(***************************************************************************)
\* the response of the handler once readContacts has returned contacts
GetResponse(contacts, id) ==
    IF contacts.t # "array" THEN Fail(500, "fetch failed")     \* contacts.find is not a function
    ELSE LET i == FindIndex(contacts.items, id)
         IN  IF i # 0 THEN Ok(200, "fetched", ContactData(contacts.items[i]))
             ELSE Fail(404, "no such contact")

Get(p) ==
    /\ Arrive(p)
    /\ \E id \in IdInputs, io \in ReadsOf(p) :
          Answer(p, Request("get", id, NoBody), ReadWent(io),
                 GetResponse(readContacts(file, io), id))
    /\ UNCHANGED <<file, now>>

(***************************************************************************)
(* POST /api/contacts                                                      *)
(***************************************************************************)
\* lines 73-88: up to the call of writeContacts
PostLoad(p) ==
    /\ Arrive(p)
    /\ \E body \in BodyInputs :
          LET r == Request("post", <<>>, body)
              v == ValidateBody(body)
          IN  IF v = "throw"
              THEN /\ Answer(p, r, "none", Fail(500, "add failed"))
                   /\ UNCHANGED now
              ELSE IF v = "invalid"
              THEN /\ Answer(p, r, "none", Fail(400, "name and phone must not be empty"))
                   /\ UNCHANGED now
              ELSE \E io \in ReadsOf(p), t \in ClockReadings(now) :
                    LET contacts == readContacts(file, io)
                        newContact == NewContact(t, body)
                    IN  /\ now' = t
                        /\ IF contacts.t # "array"             \* contacts.push is not a function
                           THEN Answer(p, r, ReadWent(io), Fail(500, "add failed"))
                           ELSE Suspend(p, r, [loaded |-> contacts.items,
                                               contacts |-> Append(contacts.items, newContact),
                                               index |-> 0, contact |-> <<newContact>>,
                                               read |-> ReadWent(io), raced |-> FALSE])
    /\ UNCHANGED file

\* lines 88-93: writeContacts returns
PostSave(p) ==
    /\ pc[p] = "save" /\ req[p].op = "post"
    /\ \E io \in WritesOf(p) :
          LET w == writeContacts(file, buf[p].contacts, io)
          IN  /\ file' = w.file
              /\ IF w.success
                 THEN Reply(p, Ok(201, "added", ContactData(buf[p].contact[1])))
                 ELSE Reply(p, Fail(500, "add failed"))
    /\ UNCHANGED <<now, started>>

(***************************************************************************)
(* PUT /api/contacts/:id                                                   *)
(***************************************************************************)
\* lines 102-117
PutLoad(p) ==
    /\ Arrive(p)
    /\ \E id \in IdInputs, body \in BodyInputs :
          LET r == Request("put", id, body)
              v == ValidatePut(id, body)
          IN  IF v = "throw" THEN Answer(p, r, "none", Fail(500, "update failed"))
              ELSE IF v = "invalid"
              THEN Answer(p, r, "none", Fail(400, "id, name and phone must not be empty"))
              ELSE \E io \in ReadsOf(p) :
                    LET contacts == readContacts(file, io)
                        index == FindIndex(contacts.items, id)
                    IN  IF contacts.t # "array"                \* contacts.findIndex is not a function
                        THEN Answer(p, r, ReadWent(io), Fail(500, "update failed"))
                        ELSE IF index = 0
                        THEN Answer(p, r, ReadWent(io), Fail(404, "no such contact"))
                        ELSE Suspend(p, r, [loaded |-> contacts.items,
                                            contacts |-> [contacts.items EXCEPT
                                                    ![index] = UpdatedContact(id, body)],
                                            index |-> index, contact |-> <<>>,
                                            read |-> ReadWent(io), raced |-> FALSE])
    /\ UNCHANGED <<file, now>>

\* lines 117-122
PutSave(p) ==
    /\ pc[p] = "save" /\ req[p].op = "put"
    /\ \E io \in WritesOf(p) :
          LET w == writeContacts(file, buf[p].contacts, io)
          IN  /\ file' = w.file
              /\ IF w.success
                 THEN Reply(p, Ok(200, "updated", ContactData(buf[p].contacts[buf[p].index])))
                 ELSE Reply(p, Fail(500, "update failed"))
    /\ UNCHANGED <<now, started>>

(***************************************************************************)
(* DELETE /api/contacts/:id                                                *)
(***************************************************************************)
\* lines 131-142
DeleteLoad(p) ==
    /\ Arrive(p)
    /\ \E id \in IdInputs :
          LET r == Request("delete", id, NoBody)
          IN  IF id = <<>> THEN Answer(p, r, "none", Fail(400, "id must not be empty"))
              ELSE \E io \in ReadsOf(p) :
                    LET contacts == readContacts(file, io)
                        newContacts == FilterOut(contacts.items, id)
                    IN  IF contacts.t # "array"                \* contacts.filter is not a function
                        THEN Answer(p, r, ReadWent(io), Fail(500, "delete failed"))
                        ELSE IF Len(newContacts) = Len(contacts.items)
                        THEN Answer(p, r, ReadWent(io), Fail(404, "no such contact"))
                        ELSE Suspend(p, r, [loaded |-> contacts.items,
                                            contacts |-> newContacts, index |-> 0,
                                            contact |-> <<>>, read |-> ReadWent(io), raced |-> FALSE])
    /\ UNCHANGED <<file, now>>

\* lines 142-147: the success response carries no data
DeleteSave(p) ==
    /\ pc[p] = "save" /\ req[p].op = "delete"
    /\ \E io \in WritesOf(p) :
          LET w == writeContacts(file, buf[p].contacts, io)
          IN  /\ file' = w.file
              /\ IF w.success
                 THEN Reply(p, Ok(200, "deleted", NoData))
                 ELSE Reply(p, Fail(500, "delete failed"))
    /\ UNCHANGED <<now, started>>

(***************************************************************************)
(* The service.                                                            *)
(***************************************************************************)
Next ==
    \/ \E p \in Slots : List(p)
    \/ \E p \in Slots : Get(p)
    \/ \E p \in Slots : PostLoad(p)
    \/ \E p \in Slots : PostSave(p)
    \/ \E p \in Slots : PutLoad(p)
    \/ \E p \in Slots : PutSave(p)
    \/ \E p \in Slots : DeleteLoad(p)
    \/ \E p \in Slots : DeleteSave(p)

Spec == Init /\ [][Next]_vars

(***************************************************************************)
(* Vocabulary of the properties.                                           *)
(***************************************************************************)
\* the persisted collection: the records of the artifact, none when it holds no array
Records(f) ==
    LET parsed == JSONparse(f.text)
    IN  IF f.exists /\ parsed.ok /\ parsed.v.t = "array" THEN parsed.v.items ELSE <<>>

\* the artifact holds a sequence of contacts, or is missing
HoldsCollection(f) ==
    ~f.exists \/ (JSONparse(f.text).ok /\ JSONparse(f.text).v.t = "array")

\* s is the empty string or consists of whitespace only
Blank(s) == \A i \in 1..Len(s) : s[i] \in WhiteSpace

\* s is non-empty and carries no leading or trailing whitespace
Trimmed(s) == s # <<>> /\ s[1] \notin WhiteSpace /\ s[Len(s)] \notin WhiteSpace

\* s without its leading and trailing whitespace, stated without recursion
Stripped(s) ==
    IF Blank(s) THEN <<>>
    ELSE LET lo == CHOOSE i \in 1..Len(s) :
                       s[i] \notin WhiteSpace /\ \A j \in 1..(i - 1) : s[j] \in WhiteSpace
             hi == CHOOSE i \in 1..Len(s) :
                       s[i] \notin WhiteSpace /\ \A j \in (i + 1)..Len(s) : s[j] \in WhiteSpace
         IN  SubSeq(s, lo, hi)

ValidBody(body) ==
    body.hasName /\ body.hasPhone /\ ~Blank(body.name) /\ ~Blank(body.phone)

AllIdle == \A p \in Slots : pc[p] = "idle"

\* this step sends a response, recorded in last': at once, or after writeContacts
Answers == started' # started /\ pc' = pc
Replies == \E p \in Slots : pc[p] = "save" /\ pc'[p] = "idle"
Completes == Answers \/ Replies

\* in this step a request arrives at slot p; the handler of slot p calls
\* writeContacts for a request op; writeContacts returns to the handler of slot p
Arrives(p) == started' # started /\ pc[p] = "idle" /\ \A q \in Slots : q < p => pc[q] # "idle"
Suspends(p, op) == pc[p] = "idle" /\ pc'[p] = "save" /\ req'[p].op = op
Saves(p, op) == pc[p] = "save" /\ pc'[p] = "idle" /\ req[p].op = op

\* no other handler's writeContacts wrote the file while slot p was in its own
Unraced(p) == ~buf[p].raced

(***************************************************************************)
(* C1.  The ids of the records of the persisted collection are pairwise    *)
(* distinct in every reachable state, also when two Adds read the same     *)
(* clock value.                                                            *)
(***************************************************************************)
C1_IdsDistinct ==
    \A i, j \in 1..Len(Records(file)) :
        i # j => Records(file)[i].id # Records(file)[j].id

(***************************************************************************)
(* C2.  A successful Add (201) followed, with nothing in between, by a Get *)
(* on the id that Add returned (a Get whose read of the artifact succeeds) *)
(* answers 200 with a record of that id whose name and phone are the       *)
(* trimmed name and phone submitted to Add.                                *)
(***************************************************************************)
C2_AddThenGet ==
    [][\A p \in Slots :
          ( /\ Arrives(p) /\ Answers
            /\ AllIdle
            /\ last.req.op = "post" /\ last.resp.status = 201
            /\ last'.req.op = "get" /\ last'.read = "ok"
            /\ last'.req.id = last.resp.data.items[1].id )
          => ( /\ last'.resp.status = 200
               /\ last'.resp.data = ContactData(Contact(last'.req.id,
                                         Stripped(last.req.body.name),
                                         Stripped(last.req.body.phone))) )]_vars

(***************************************************************************)
(* C3.  A successful Update(id, n, p) whose write no other write overlaps  *)
(* changes only the name and phone of one record carrying that id: against *)
(* the collection the call read, the persisted collection has the same     *)
(* length, the record keeps its id and its position, every other record is *)
(* unchanged, and a Get(id) that follows with nothing in between or beside *)
(* it and reads the artifact answers 200 with the trimmed n and p.         *)
(***************************************************************************)
UpdateFrame(p) ==
    LET old == buf[p].loaded
        new == Records(file')
        r == req[p]
    IN  /\ HoldsCollection(file')
        /\ Len(new) = Len(old)
        /\ \E i \in 1..Len(old) :
              /\ old[i].id = r.id
              /\ new[i] = Contact(r.id, Stripped(r.body.name), Stripped(r.body.phone))
              /\ \A j \in 1..Len(old) : j # i => new[j] = old[j]

GetAfterUpdate ==
    ( /\ AllIdle
      /\ last.req.op = "put" /\ last.resp.status = 200 /\ ~last.raced
      /\ last'.req.op = "get" /\ last'.read = "ok" /\ last'.req.id = last.req.id )
    => ( /\ last'.resp.status = 200
         /\ last'.resp.data = ContactData(Contact(last.req.id,
                                   Stripped(last.req.body.name),
                                   Stripped(last.req.body.phone))) )

C3_UpdateChangesOneRecord ==
    [][\A p \in Slots :
          /\ Suspends(p, "put") => buf'[p].loaded = Records(file)
          /\ (Saves(p, "put") /\ Unraced(p) /\ last'.resp.status = 200) => UpdateFrame(p)
          /\ (Arrives(p) /\ Answers) => GetAfterUpdate]_vars

C3_Witness ==
    /\ last.req.op = "put" /\ last.resp.status = 200
    /\ Len(Records(file)) >= 2
    /\ last.req.body.name # Stripped(last.req.body.name)

(***************************************************************************)
(* C4.  After a successful Delete(id) the collection is exactly one record *)
(* shorter than the collection the call read, and a Get(id) that follows   *)
(* answers 404.                                                            *)
(***************************************************************************)
C4_DeleteRemovesOne ==
    [][\A p \in Slots :
          /\ Suspends(p, "delete") => buf'[p].loaded = Records(file)
          /\ (Saves(p, "delete") /\ last'.resp.status = 200)
                => Len(Records(file')) = Len(buf[p].loaded) - 1
          /\ ( /\ Arrives(p) /\ Answers
               /\ last.req.op = "delete" /\ last.resp.status = 200
               /\ last'.req.op = "get" /\ last'.req.id = last.req.id )
                => last'.resp.status = 404]_vars

(***************************************************************************)
(* C5.  An Add or Update whose name or phone is empty or whitespace only   *)
(* is answered 400 with success false, before any read or write: the       *)
(* artifact is unchanged, whatever it holds and whether or not the id of   *)
(* the Update exists.                                                      *)
(***************************************************************************)
BlankField(body) ==
    body.hasName /\ body.hasPhone /\ (Blank(body.name) \/ Blank(body.phone))

C5_BlankIsRejected ==
    [][( /\ Completes
         /\ last'.req.op \in {"post", "put"}
         /\ BlankField(last'.req.body) )
       => ( /\ last'.resp.status = 400
            /\ ~last'.resp.success
            /\ last'.read = "none"
            /\ Answers
            /\ file' = file )]_vars

C5_Witness ==
    /\ last.req.op = "put" /\ last.resp.status = 400
    /\ Blank(last.req.body.phone) /\ last.req.body.phone # <<>>
    /\ \E i \in 1..Len(Records(file)) : Records(file)[i].id = last.req.id

(***************************************************************************)
(* C6.  Get, Update (valid name and phone) and Delete with an id that no   *)
(* record of the persisted collection carries answer 404, do not call      *)
(* writeContacts, and leave the artifact unchanged.                        *)
(***************************************************************************)
\* the request that slot p takes up in this step
Handled(p) == IF pc'[p] = "save" THEN req'[p] ELSE last'.req

AbsentId(f, id) == \A i \in 1..Len(Records(f)) : Records(f)[i].id # id

NotFoundStep(p) ==
    ( /\ Arrives(p)
      /\ Handled(p).op \in {"get", "delete"}
            \/ (Handled(p).op = "put" /\ ValidBody(Handled(p).body))
      /\ AbsentId(file, Handled(p).id) )
    => ( /\ Answers
         /\ last'.resp.status = 404 /\ ~last'.resp.success
         /\ file' = file )

C6_AbsentIdIsNotFound == [][\A p \in Slots : NotFoundStep(p)]_vars

(***************************************************************************)
(* C7.  When writeContacts fails inside Add, Update or Delete, the         *)
(* response is 500 with success false, and the persisted collection is     *)
(* what it was before the write.                                           *)
(***************************************************************************)
SaveStep(p) == \E op \in {"post", "put", "delete"} : Saves(p, op)

C7_FailedSaveChangesNothing ==
    [][\A p \in Slots :
          SaveStep(p)
          => \/ /\ last'.resp.success
                /\ file' \in {writeContacts(file, buf[p].contacts, io).file :
                                 io \in {"ok", "okOverOther"}}
             \/ /\ last'.resp.status = 500 /\ ~last'.resp.success
                /\ Records(file') = Records(file)]_vars

(***************************************************************************)
(* C8.  readContacts returns an array for every artifact and every outcome *)
(* of its I/O, the empty one unless the artifact holds an array of         *)
(* contacts; so no handler that reached readContacts answers 500 before    *)
(* it calls writeContacts.                                                 *)
(***************************************************************************)
LoadYieldsSequence(f) ==
    \A io \in ReadOutcomes :
        /\ readContacts(f, io).t = "array"
        /\ readContacts(f, io).items \in {<<>>, Records(f)}

C8_LoadNeverFails ==
    [][/\ LoadYieldsSequence(file)
       /\ (Answers /\ last'.read # "none") => last'.resp.status # 500]_vars

(***************************************************************************)
(* C9.  Round trip: after a successful writeContacts(L) that no other      *)
(* write overlaps, a readContacts that reads the artifact before any other *)
(* write returns the records of L in the order of L.                       *)
(***************************************************************************)
C9_RoundTrip ==
    [][\A p \in Slots :
          (SaveStep(p) /\ Unraced(p) /\ last'.resp.success)
          => /\ readContacts(file', "ok") = JArray(buf[p].contacts)
             /\ Records(file') = buf[p].contacts]_vars

C9_Witness ==
    /\ last.req.op \in {"post", "put", "delete"} /\ last.resp.success
    /\ Len(Records(file)) >= 2
    /\ Records(file)[1] # Records(file)[2]

(***************************************************************************)
(* C10.  Every record of the persisted collection has a name and a phone   *)
(* that are non-empty and carry no leading or trailing whitespace, after   *)
(* any interleaving of Add, Update and Delete.                             *)
(***************************************************************************)
C10_RecordsAreTrimmed ==
    \A i \in 1..Len(Records(file)) :
        Trimmed(Records(file)[i].name) /\ Trimmed(Records(file)[i].phone)

C10_Witness ==
    /\ Len(Records(file)) >= 2
    /\ \E i \in 1..Len(Records(file)) :
          Records(file)[i].name = <<"b">> /\ Records(file)[i].phone = <<"2">>
    /\ last.req.op = "put" /\ last.resp.status = 200

(***************************************************************************)
(* C11.  An id is never reused: an Add that begins after a successful      *)
(* Delete(x) has removed the records of id x, and that overlaps no other   *)
(* call, does not give x to its new record, whatever the clock returns.    *)
(***************************************************************************)
C11_IdNeverReused ==
    [][\A p \in Slots :
          ( /\ Saves(p, "post") /\ alone[p]
            /\ last.req.op = "delete" /\ last.resp.status = 200
            /\ last'.resp.status = 201 )
          => last'.resp.data.items[1].id # last.req.id]_vars

(***************************************************************************)
(* C12.  Response envelope: every response carries a boolean success and a *)
(* string message; the statuses 400, 404 and 500 carry success false, the  *)
(* statuses 200 and 201 success true; every response with success true     *)
(* carries data, except that of a successful Delete, which carries none.   *)
(***************************************************************************)
Sent == last # NoExchange

EnvelopeFields ==
    Sent => /\ last.resp.success \in BOOLEAN
            /\ last.resp.message \in STRING /\ last.resp.message # ""
            /\ last.resp.status \in {200, 201, 400, 404, 500}
            /\ last.resp.success <=> last.resp.status \in {200, 201}

AbsentField(body) == ~body.hasName \/ ~body.hasPhone

C13_AbsentFieldIsRejected ==
    [][(Completes /\ last'.req.op \in {"post", "put"})
       => /\ AbsentField(last'.req.body)
             => (last'.resp.status = 400 /\ file' = file)
          /\ last'.resp.status = 500
             => Replies]_vars

(***************************************************************************)
(* C14.  Lost update: when two of Add, Update and Delete have both         *)
(* returned from readContacts before either returns from writeContacts and *)
(* both answer success, the artifact after the second return is exactly    *)
(* the text the second call wrote, and the first call's change is not in   *)
(* the persisted collection.                                               *)
(***************************************************************************)
\* the change made by the call that answered last is in the collection cs
LastChangeIn(cs) ==
    IF last.req.op = "delete"
    THEN \A i \in 1..Len(cs) : cs[i].id # last.req.id
    ELSE \E i \in 1..Len(cs) : cs[i] = last.resp.data.items[1]

\* the second of two overlapping saves: the other one has answered success
\* just before, with nothing in between
SecondSave(p) ==
    /\ SaveStep(p) /\ buf[p].raced
    /\ last.req.op \in {"post", "put", "delete"} /\ last.resp.success
    /\ last'.resp.success

C14_SecondSaveWins ==
    [][\A p \in Slots :
          SecondSave(p) => /\ file' = FileOf(JSONstringify(buf[p].contacts))
                           /\ ~LastChangeIn(Records(file'))]_vars

(***************************************************************************)
(* C15.  A successful Add (201) that no other call overlaps appends: the   *)
(* persisted collection afterwards is the one before the call followed by  *)
(* the new record, whatever the outcome of the read inside the call.       *)
(***************************************************************************)
C15_AddAppends ==
    [][\A p \in Slots :
          (Saves(p, "post") /\ alone[p] /\ last'.resp.status = 201)
          => /\ HoldsCollection(file')
             /\ Records(file') = Append(Records(file), last'.resp.data.items[1])]_vars

(***************************************************************************)
(* C16.  Sequential equivalence: a call that no other call overlaps and    *)
(* whose read and write succeed answers as, and leaves the persisted       *)
(* collection as, the same call on an abstract sequence equal to the       *)
(* persisted collection before it: Add appends, Update replaces the first  *)
(* record of the id, Delete removes the records of the id, List and Get    *)
(* change nothing.  Holding at every call, it holds along every sequence.  *)
(***************************************************************************)
\* the position of the first record of cs with this id, 0 if there is none
AbsFirst(cs, id) ==
    IF \E i \in 1..Len(cs) : cs[i].id = id
    THEN CHOOSE i \in 1..Len(cs) : cs[i].id = id /\ \A j \in 1..(i - 1) : cs[j].id # id
    ELSE 0

AbsWithout(cs, id) == SelectSeq(cs, LAMBDA c : c.id # id)

AbsRecord(id, body) == Contact(id, Stripped(body.name), Stripped(body.phone))

\* the abstract sequence after request r on cs, the clock reading t
AbsAfter(cs, r, t) ==
    IF r.op = "post" /\ ValidBody(r.body)
    THEN Append(cs, AbsRecord(NumberToString(t), r.body))
    ELSE IF r.op = "put" /\ ValidBody(r.body) /\ AbsFirst(cs, r.id) # 0
    THEN [cs EXCEPT ![AbsFirst(cs, r.id)] = AbsRecord(r.id, r.body)]
    ELSE IF r.op = "delete" THEN AbsWithout(cs, r.id)
    ELSE cs

\* the status and the data of the abstract answer
AbsAnswer(cs, r, t) ==
    IF r.op = "list" THEN <<200, JArray(cs)>>
    ELSE IF r.op = "get"
    THEN IF AbsFirst(cs, r.id) = 0 THEN <<404, NoData>>
         ELSE <<200, ContactData(cs[AbsFirst(cs, r.id)])>>
    ELSE IF r.op = "post"
    THEN IF ~ValidBody(r.body) THEN <<400, NoData>>
         ELSE <<201, ContactData(AbsRecord(NumberToString(t), r.body))>>
    ELSE IF r.op = "put"
    THEN IF ~ValidBody(r.body) THEN <<400, NoData>>
         ELSE IF AbsFirst(cs, r.id) = 0 THEN <<404, NoData>>
         ELSE <<200, ContactData(AbsRecord(r.id, r.body))>>
    ELSE IF AbsFirst(cs, r.id) = 0 THEN <<404, NoData>>
         ELSE <<200, NoData>>

\* the call that ends in this step, and the collection it started from
AsAbstract(r) ==
    /\ <<last'.resp.status, last'.resp.data>> = AbsAnswer(Records(file), r, now')
    /\ Records(file') = AbsAfter(Records(file), r, now')

C16_SequentialEquivalence ==
    [][\A p \in Slots :
          /\ (Arrives(p) /\ Answers /\ AllIdle /\ last'.read # "failed")
                => AsAbstract(last'.req)
          /\ (SaveStep(p) /\ alone[p] /\ buf[p].read = "ok" /\ last'.resp.success)
                => AsAbstract(req[p])]_vars

InFlight == {p \in Slots : pc[p] = "save"}

OneResponseEach == sent + Cardinality(InFlight) = started

\* the return of writeContacts to the handler of slot p
Resume(p) == PostSave(p) \/ PutSave(p) \/ DeleteSave(p)

CanResume == \A p \in InFlight : ENABLED Resume(p)

HandlerShape(p) ==
    /\ Arrives(p)
       => \/ Answers /\ sent' = sent + 1 /\ file' = file
          \/ /\ \E op \in {"post", "put", "delete"} : Suspends(p, op)
             /\ buf'[p].read # "none" /\ sent' = sent /\ file' = file
    /\ pc[p] = "save"
       => \/ pc'[p] = "save" /\ req'[p] = req[p] /\ buf'[p].contacts = buf[p].contacts
          \/ SaveStep(p) /\ sent' = sent + 1

C18_OneResponseOneLoadOneSave ==
    /\ [](OneResponseEach /\ CanResume)
    /\ [][\A p \in Slots : HandlerShape(p)]_vars
    /\ [][file' # file => \E p \in Slots : SaveStep(p)]_vars

C18_Witness ==
    /\ sent = MaxRequests /\ started = MaxRequests
    /\ last.req.op = "post" /\ last.resp.status = 500 /\ last.read = "failed"
    /\ Records(file) # <<>>

====
